---- MODULE Spec2Model ----
(***************************************************************************)
(* A model of rusty-data: the LineSplitIter tokenizer and Loader::load_file *)
(* of loader.rs, and DataColumn / DataTable of datatable.rs.               *)
(*                                                                         *)
(* A Rust String is a sequence of chars; a char is written as a TLA+       *)
(* string and has an encoded width in bytes (Width).  Option and Result    *)
(* values are records.                                                     *)
(***************************************************************************)
EXTENDS Integers, Sequences, FiniteSets, TLC

VARIABLES
    \* LineSplitIter (loader.rs 145-149) and what a caller has drawn from it
    line, quote_char, delimiter, line0, yielded, tok,
    \* one DataColumn (datatable.rs 107-112) and the last value a method returned
    data, categories, data_at_update, col_ret,
    \* one DataTable (datatable.rs 17-20) and the value into_consistent_data returned
    data_cols, tab_ret,
    \* Loader::load_file (loader.rs 79-141): options, its local table, its position
    options, table, first_line, cur_line, nlines, load

tokVars == <<line, quote_char, delimiter, line0, yielded, tok>>
colVars == <<data, categories, data_at_update, col_ret>>
tabVars == <<data_cols, tab_ret>>
loadVars == <<options, table, first_line, cur_line, nlines, load>>
vars == <<tokVars, colVars, tabVars, loadVars>>

----------------------------------------------------------------------------
(* Bounds *)

MaxLineLen == 4
MaxRows == 3
MaxTabCols == 3
MaxTabRows == 2
MaxLoadLineLen == 2
MaxFileLines == 2

----------------------------------------------------------------------------
(* Option, Result, chars and strings *)

None == [some |-> FALSE]
Some(x) == [some |-> TRUE, val |-> x]
Ok(x) == [ok |-> TRUE, val |-> x]
Err(e) == [ok |-> FALSE, err |-> e]

Comma == ","
Quote == "\""
WideChar == "U+00E9"

\* The number of bytes of a char's UTF-8 encoding.
Width(c) == IF c = WideChar THEN 2 ELSE 1

RECURSIVE ByteLen(_)
ByteLen(s) == IF s = <<>> THEN 0 ELSE Width(Head(s)) + ByteLen(Tail(s))

RECURSIVE SeqsUpTo(_, _)
SeqsUpTo(S, n) ==
    IF n = 0 THEN {<<>>}
    ELSE LET shorter == SeqsUpTo(S, n - 1)
         IN  shorter \cup {Append(s, c) : s \in shorter, c \in S}

----------------------------------------------------------------------------
(* LineSplitIter::next *)

\* str::find with the closure of loader.rs 176-185: the byte offset of the
\* first delimiter met while in_quotes is false, each quote_char toggling it.
RECURSIVE find_unquoted(_, _, _, _, _)
find_unquoted(l, i, in_quotes, q, d) ==
    IF i > Len(l) THEN None
    ELSE IF l[i] = q THEN find_unquoted(l, i + 1, ~in_quotes, q, d)
    ELSE IF l[i] = d /\ ~in_quotes THEN Some(ByteLen(SubSeq(l, 1, i - 1)))
    ELSE find_unquoted(l, i + 1, in_quotes, q, d)

\* str::find(char): the byte offset of the first occurrence of d.
RECURSIVE find_char(_, _, _)
find_char(l, i, d) ==
    IF i > Len(l) THEN None
    ELSE IF l[i] = d THEN Some(ByteLen(SubSeq(l, 1, i - 1)))
    ELSE find_char(l, i + 1, d)

drain_offset(l, q, d) ==
    IF q.some THEN find_unquoted(l, 1, FALSE, q.val, d) ELSE find_char(l, 1, d)

\* The chars of l that lie in the byte range ..offset.
RECURSIVE drain_to(_, _)
drain_to(l, offset) ==
    IF offset <= 0 \/ l = <<>> THEN <<>>
    ELSE <<Head(l)>> \o drain_to(Tail(l), offset - Width(Head(l)))

\* str::trim_matches(char): every leading and every trailing q removed.
RECURSIVE trim_start_matches(_, _)
trim_start_matches(t, q) ==
    IF t # <<>> /\ Head(t) = q THEN trim_start_matches(Tail(t), q) ELSE t

RECURSIVE trim_end_matches(_, _)
trim_end_matches(t, q) ==
    IF t # <<>> /\ t[Len(t)] = q
    THEN trim_end_matches(SubSeq(t, 1, Len(t) - 1), q) ELSE t

trim_matches(t, q) == trim_end_matches(trim_start_matches(t, q), q)

\* The field cut off before a delimiter: trimmed when a quote char is set.
cut_field(t, q) == IF q.some THEN trim_matches(t, q.val) ELSE t

\* The final field: the rest of the line as it is (loader.rs 200).
last_field(l, q) == l

\* One call of next(): kind "None", "Some" (item, and the line left) or
\* "Panic" (the slice [1..] is not on a char boundary).
LineSplitNext(l, q, d) ==
    IF ByteLen(l) = 0 THEN [kind |-> "None", item |-> <<>>, rest |-> l]
    ELSE LET off == drain_offset(l, q, d)
         IN  IF off.some
             THEN LET t == drain_to(l, off.val)
                      after == SubSeq(l, Len(t) + 1, Len(l))
                  IN  IF Width(Head(after)) = 1
                      THEN [kind |-> "Some", item |-> cut_field(t, q),
                            rest |-> Tail(after)]
                      ELSE [kind |-> "Panic", item |-> <<>>, rest |-> after]
             ELSE [kind |-> "Some", item |-> last_field(l, q), rest |-> <<>>]

\* Collecting the iterator, as a for loop does: the fields, or a panic.
RECURSIVE Collect(_, _, _)
Collect(l, q, d) ==
    LET r == LineSplitNext(l, q, d)
    IN  IF r.kind = "None" THEN [panic |-> FALSE, fields |-> <<>>]
        ELSE IF r.kind = "Panic" THEN [panic |-> TRUE, fields |-> <<>>]
        ELSE LET more == Collect(r.rest, q, d)
             IN  [panic |-> more.panic, fields |-> <<r.item>> \o more.fields]

----------------------------------------------------------------------------
(* The tokenizer as a state machine: LineSplitIter::new, then next() until *)
(* it returns None.                                                        *)

TokAlphabet == {"a", Comma, Quote, WideChar}
ExampleLine == <<"a", Comma, Quote, "b", Comma, "c", Quote, Comma, "d">>
TokLines == SeqsUpTo(TokAlphabet, MaxLineLen) \cup {ExampleLine}
Delimiters == {Comma, WideChar}
QuoteChars == {None, Some(Quote)}

ColIdle ==
    /\ data = <<>>
    /\ categories = None
    /\ data_at_update = None
    /\ col_ret = [op |-> "none"]

TabIdle ==
    /\ data_cols = <<>>
    /\ tab_ret = [op |-> "none"]

LoadIdle ==
    /\ options = [has_header |-> FALSE, delimiter |-> Comma, quote_marker |-> None]
    /\ table = <<>>
    /\ first_line = <<>>
    /\ cur_line = <<>>
    /\ nlines = 0
    /\ load = "idle"

TokIdle ==
    /\ line = <<>>
    /\ quote_char = None
    /\ delimiter = Comma
    /\ line0 = <<>>
    /\ yielded = <<>>
    /\ tok = "idle"

InitTok ==
    /\ line \in TokLines
    /\ quote_char \in QuoteChars
    /\ delimiter \in Delimiters
    /\ line0 = line
    /\ yielded = <<>>
    /\ tok = "iter"
    /\ ColIdle /\ TabIdle /\ LoadIdle

TokNext ==
    /\ tok = "iter"
    /\ LET r == LineSplitNext(line, quote_char, delimiter)
       IN  /\ line' = r.rest
           /\ yielded' = IF r.kind = "Some" THEN Append(yielded, r.item) ELSE yielded
           /\ tok' = CASE r.kind = "Some" -> "iter"
                       [] r.kind = "None" -> "none"
                       [] OTHER -> "panic"
    /\ UNCHANGED <<quote_char, delimiter, line0, colVars, tabVars, loadVars>>

SpecTok == InitTok /\ [][TokNext]_vars

----------------------------------------------------------------------------
(* FromStr: the parse of a string as the requested type T.  T is "String"  *)
(* (from_str never fails and copies the text) or "i64" (an optional sign,  *)
(* then one or more decimal digits; the strings of this model are far too  *)
(* short to overflow 64 bits).                                             *)

Types == {"i64", "String"}
Digits == <<"0", "1", "2", "3", "4", "5", "6", "7", "8", "9">>
IsDigit(c) == \E i \in 1..Len(Digits) : Digits[i] = c
DigitVal(c) == (CHOOSE i \in 1..Len(Digits) : Digits[i] = c) - 1

RECURSIVE parse_digits(_, _)
parse_digits(s, acc) ==
    IF s = <<>> THEN Ok(acc)
    ELSE IF IsDigit(Head(s)) THEN parse_digits(Tail(s), acc * 10 + DigitVal(Head(s)))
    ELSE Err("ParseIntError")

parse_i64(s) ==
    IF s = <<>> THEN Err("ParseIntError")
    ELSE IF Head(s) \in {"+", "-"}
    THEN IF Tail(s) = <<>> THEN Err("ParseIntError")
         ELSE LET r == parse_digits(Tail(s), 0)
              IN  IF r.ok /\ Head(s) = "-" THEN Ok(0 - r.val) ELSE r
    ELSE parse_digits(s, 0)

FromStr(T, s) == IF T = "String" THEN Ok(s) ELSE parse_i64(s)

----------------------------------------------------------------------------
(* DataColumn *)

\* update_categories: one scan of data, each value not yet in the map
\* inserted with the next count.
RECURSIVE scan_categories(_, _, _, _)
scan_categories(d, i, cats, count) ==
    IF i > Len(d) THEN cats
    ELSE IF d[i] \in DOMAIN cats THEN scan_categories(d, i + 1, cats, count)
    ELSE scan_categories(d, i + 1, cats @@ (d[i] :> count), count + 1)

\* Mutant: the count advances on every element, also on a value seen before.
RECURSIVE scan_count_all(_, _, _)
scan_count_all(d, i, cats) ==
    IF i > Len(d) THEN cats
    ELSE IF d[i] \in DOMAIN cats THEN scan_count_all(d, i + 1, cats)
    ELSE scan_count_all(d, i + 1, cats @@ (d[i] :> i - 1))

update_categories_count_all(d) == Some(scan_count_all(d, 1, <<>>))

update_categories(d) == Some(scan_categories(d, 1, <<>>, 0))

\* The rows of numeric_category_data: outer_vec after rows i.. of d.
RECURSIVE category_rows(_, _, _, _)
category_rows(d, i, cats, outer_vec) ==
    IF i > Len(d) THEN Ok(outer_vec)
    ELSE IF d[i] \notin DOMAIN cats THEN Err("InvalidStateError")
    ELSE category_rows(d, i + 1, cats,
             [c \in DOMAIN outer_vec |->
                 Append(outer_vec[c], IF cats[d[i]] = c - 1 THEN 1 ELSE 0)])

numeric_category_data(d, cats) ==
    IF cats.some
    THEN category_rows(d, 1, cats.val,
                       [c \in 1..Cardinality(DOMAIN cats.val) |-> <<>>])
    ELSE Err("InvalidStateError")

\* Mutant: push drops the category mapping.
push_categories_reset(cats, val) == None

\* What push leaves in the categories field: it is not touched.
push_categories(cats, val) == cats

\* DataColumn::cast: the parsed values, or None at the first that fails.
RECURSIVE cast_from(_, _, _, _)
cast_from(d, i, T, casted_data) ==
    IF i > Len(d) THEN Some(casted_data)
    ELSE LET r == FromStr(T, d[i])
         IN  IF r.ok THEN cast_from(d, i + 1, T, Append(casted_data, r.val))
             ELSE None

\* Mutant: an element that fails to parse is skipped, and the rest returned.
RECURSIVE cast_skip_from(_, _, _, _)
cast_skip_from(d, i, T, casted_data) ==
    IF i > Len(d) THEN Some(casted_data)
    ELSE LET r == FromStr(T, d[i])
         IN  cast_skip_from(d, i + 1, T,
                 IF r.ok THEN Append(casted_data, r.val) ELSE casted_data)

cast_skip(d, T) == cast_skip_from(d, 1, T, <<>>)

cast(d, T) == cast_from(d, 1, T, <<>>)

\* DataColumn::into_vec: as cast, with DataCastError for None.
RECURSIVE into_vec_from(_, _, _, _)
into_vec_from(d, i, T, casted_data) ==
    IF i > Len(d) THEN Ok(casted_data)
    ELSE LET r == FromStr(T, d[i])
         IN  IF r.ok THEN into_vec_from(d, i + 1, T, Append(casted_data, r.val))
             ELSE Err("DataCastError")

into_vec(d, T) == into_vec_from(d, 1, T, <<>>)

ColValues == {<<"1">>, <<"1", "2">>, <<"-", "2">>, <<"x">>}

\* DataColumn::empty()
InitCol ==
    /\ data = <<>>
    /\ categories = None
    /\ data_at_update = None
    /\ col_ret = [op |-> "empty"]
    /\ TokIdle /\ TabIdle /\ LoadIdle

Push ==
    /\ Len(data) < MaxRows
    /\ \E val \in ColValues :
          /\ data' = Append(data, val)
          /\ categories' = push_categories(categories, val)
    /\ col_ret' = [op |-> "push"]
    /\ UNCHANGED <<data_at_update, tokVars, tabVars, loadVars>>

UpdateCategories ==
    /\ categories' = update_categories(data)
    /\ data_at_update' = Some(data)
    /\ col_ret' = [op |-> "update_categories"]
    /\ UNCHANGED <<data, tokVars, tabVars, loadVars>>

NumericCategoryData ==
    /\ col_ret' = [op |-> "numeric_category_data",
                   ret |-> numeric_category_data(data, categories)]
    /\ UNCHANGED <<data, categories, data_at_update, tokVars, tabVars, loadVars>>

Cast ==
    /\ \E T \in Types :
          col_ret' = [op |-> "cast", T |-> T, ret |-> cast(data, T)]
    /\ UNCHANGED <<data, categories, data_at_update, tokVars, tabVars, loadVars>>

NextCol == Push \/ UpdateCategories \/ NumericCategoryData \/ Cast

SpecCol == InitCol /\ [][NextCol]_vars

----------------------------------------------------------------------------
(* DataTable *)

\* DataColumn::empty()
EmptyColumn == [name |-> None, categories |-> None, data |-> <<>>]

cols(t) == Len(t)
rows(t) == IF Len(t) > 0 THEN Len(t[1].data) ELSE 0

\* The row-major loops of into_consistent_data: round r, column i, with
\* column_iters the unread rest of every column.  A column that has run out
\* yields None and is passed over.
RECURSIVE row_major_data(_, _, _, _, _, _, _)
row_major_data(column_iters, r, i, nrows, ncols, T, table_data) ==
    IF r > nrows THEN Ok(table_data)
    ELSE IF i > ncols
    THEN row_major_data(column_iters, r + 1, 1, nrows, ncols, T, table_data)
    ELSE IF column_iters[i] = <<>>
    THEN row_major_data(column_iters, r, i + 1, nrows, ncols, T, table_data)
    ELSE LET x == FromStr(T, Head(column_iters[i]))
             rest == [column_iters EXCEPT ![i] = Tail(@)]
         IN  IF x.ok
             THEN row_major_data(rest, r, i + 1, nrows, ncols, T,
                                 Append(table_data, x.val))
             ELSE Err("DataCastError")

\* The column-major loop: every column's into_vec, appended in column order.
RECURSIVE col_major_data(_, _, _, _)
col_major_data(t, i, T, table_data) ==
    IF i > Len(t) THEN Ok(table_data)
    ELSE LET x == into_vec(t[i].data, T)
         IN  IF x.ok THEN col_major_data(t, i + 1, T, table_data \o x.val)
             ELSE x

\* The closing check of the length against cols * rows.
check_len(table_data, t) ==
    IF table_data.ok /\ Len(table_data.val) # cols(t) * rows(t)
    THEN Err("InvalidStateError")
    ELSE table_data

\* Mutant: column-major order whatever row_major says.
into_consistent_data_col_major(t, row_major, T) ==
    check_len(col_major_data(t, 1, T, <<>>), t)

into_consistent_data(t, row_major, T) ==
    check_len(IF row_major
              THEN row_major_data([i \in 1..Len(t) |-> t[i].data], 1, 1,
                                  rows(t), cols(t), T, <<>>)
              ELSE col_major_data(t, 1, T, <<>>),
              t)

TabValues == {<<"1">>, <<"x">>}
ExampleTable ==
    << [EmptyColumn EXCEPT !.data = <<<<"1">>, <<"2">>>>],
       [EmptyColumn EXCEPT !.data = <<<<"a">>, <<"b">>>>] >>

\* DataTable::empty(), or the table of the documented example; columns and
\* values are then pushed through the public data_cols field.
InitTab ==
    /\ data_cols \in {<<>>, ExampleTable}
    /\ tab_ret = [op |-> "none"]
    /\ TokIdle /\ ColIdle /\ LoadIdle

TablePushColumn ==
    /\ tab_ret.op = "none"
    /\ Len(data_cols) < MaxTabCols
    /\ data_cols' = Append(data_cols, EmptyColumn)
    /\ UNCHANGED <<tab_ret, tokVars, colVars, loadVars>>

TableColumnPush ==
    /\ tab_ret.op = "none"
    /\ \E i \in 1..Len(data_cols), val \in TabValues :
          /\ Len(data_cols[i].data) < MaxTabRows
          /\ data_cols' = [data_cols EXCEPT ![i].data = Append(@, val)]
    /\ UNCHANGED <<tab_ret, tokVars, colVars, loadVars>>

\* into_consistent_data consumes the table: data_cols keeps the value it
\* was called on and nothing is done to it afterwards.
IntoConsistentData ==
    /\ tab_ret.op = "none"
    /\ \E row_major \in BOOLEAN, T \in Types :
          tab_ret' = [op |-> "into_consistent_data", row_major |-> row_major,
                      T |-> T, ret |-> into_consistent_data(data_cols, row_major, T)]
    /\ UNCHANGED <<data_cols, tokVars, colVars, loadVars>>

NextTab == TablePushColumn \/ TableColumnPush \/ IntoConsistentData

SpecTab == InitTab /\ [][NextTab]_vars

----------------------------------------------------------------------------
(* Loader::load_file, one line of the file at a time.  load is its position: *)
(* "first" (file opened, no line read), "rest" (in the loop over the lines  *)
(* that follow), "ok" (returned Ok(table)), "malformed" (returned the       *)
(* InvalidInput error), "io_error" (returned the error of File::open or of  *)
(* a read) or "panic" (aborted).                                            *)

\* usize::MAX; TLC's integers are 32 bits wide, so the largest of them
\* stands for it: all that is read of it is that no idx equals it.
UsizeMax == 2147483647

\* cols() - 1 in usize: an abort in a build with overflow checks, and a
\* wrap to usize::MAX without them.
cols_minus_one(ncols, overflow_checks) ==
    IF ncols >= 1 THEN Ok(ncols - 1)
    ELSE IF overflow_checks THEN Err("panic")
    ELSE Ok(UsizeMax)

\* The columns made from the first line (loader.rs 87-114).
first_line_columns(fields, has_header) ==
    [i \in 1..Len(fields) |->
        IF has_header THEN [EmptyColumn EXCEPT !.name = Some(fields[i])]
        ELSE [EmptyColumn EXCEPT !.data = <<fields[i]>>]]

\* The loop over the tokens of a later line (loader.rs 125-132); i and idx
\* count from 0.  data_cols[idx] with idx = cols() is out of range.
RECURSIVE push_tokens(_, _, _, _)
push_tokens(t, fields, i, idx) ==
    IF i >= Len(fields) THEN [kind |-> "done", table |-> t, idx |-> idx]
    ELSE IF i > cols(t) THEN [kind |-> "malformed", table |-> t, idx |-> i]
    ELSE IF i >= cols(t) THEN [kind |-> "panic", table |-> t, idx |-> i]
    ELSE push_tokens([t EXCEPT ![i + 1].data = Append(@, fields[i + 1])],
                     fields, i + 1, i)

\* Mutant: a line with fewer tokens than columns is let through.
row_end_lenient(idx, ncols, overflow_checks) == "rest"

\* The check that closes a line (loader.rs 134-136).
row_end(idx, ncols, overflow_checks) ==
    LET last == cols_minus_one(ncols, overflow_checks)
    IN  IF ~last.ok THEN "panic"
        ELSE IF idx # last.val THEN "malformed"
        ELSE "rest"

\* One pass of the loop over the later lines (loader.rs 116-137).
next_line(t, l, opts, overflow_checks) ==
    LET toks == Collect(l, opts.quote_marker, opts.delimiter)
        pushed == push_tokens(t, toks.fields, 0, 0)
    IN  [table |-> pushed.table,
         load |-> IF pushed.kind # "done" THEN pushed.kind
                  ELSE IF toks.panic THEN "panic"
                  ELSE row_end(pushed.idx, cols(t), overflow_checks)]

\* Either delimiter is an ordinary char of a line split on the other one.
LoadAlphabet == {Comma, WideChar, Quote}
LoadLines == SeqsUpTo(LoadAlphabet, MaxLoadLineLen)

\* Loader { file, options } with any options, before load_file is called.
InitLoad ==
    /\ options \in [has_header : BOOLEAN, delimiter : Delimiters,
                    quote_marker : QuoteChars]
    /\ table = <<>>
    /\ first_line = <<>>
    /\ cur_line = <<>>
    /\ nlines = 0
    /\ load = "start"
    /\ TokIdle /\ ColIdle /\ TabIdle

\* File::open and DataTable::empty(); the open may fail.
LoadOpen ==
    /\ load = "start"
    /\ load' \in {"first", "io_error"}
    /\ UNCHANGED <<options, table, first_line, cur_line, nlines,
                   tokVars, colVars, tabVars>>

\* lines.next() is Some(line) for the first time.
LoadFirstLine ==
    /\ load = "first"
    /\ \E l \in LoadLines :
          LET toks == Collect(l, options.quote_marker, options.delimiter)
          IN  /\ first_line' = l
              /\ cur_line' = l
              /\ table' = first_line_columns(toks.fields, options.has_header)
              /\ load' = IF toks.panic THEN "panic" ELSE "rest"
    /\ nlines' = 1
    /\ UNCHANGED <<options, tokVars, colVars, tabVars>>

\* lines.next() is Some(line) in the loop.
LoadNextLine ==
    /\ load = "rest"
    /\ nlines < MaxFileLines
    /\ \E l \in LoadLines, overflow_checks \in BOOLEAN :
          LET r == next_line(table, l, options, overflow_checks)
          IN  /\ cur_line' = l
              /\ table' = r.table
              /\ load' = r.load
    /\ nlines' = nlines + 1
    /\ UNCHANGED <<options, first_line, tokVars, colVars, tabVars>>

\* A read of a line fails (try!(line)).
LoadReadError ==
    /\ load \in {"first", "rest"}
    /\ load' = "io_error"
    /\ UNCHANGED <<options, table, first_line, cur_line, nlines,
                   tokVars, colVars, tabVars>>

\* The lines have run out: shrink_to_fit and Ok(table).
LoadFinish ==
    /\ load \in {"first", "rest"}
    /\ load' = "ok"
    /\ UNCHANGED <<options, table, first_line, cur_line, nlines,
                   tokVars, colVars, tabVars>>

NextLoad ==
    LoadOpen \/ LoadFirstLine \/ LoadNextLine \/ LoadReadError \/ LoadFinish

SpecLoad == InitLoad /\ [][NextLoad]_vars

----------------------------------------------------------------------------
(* Claims about the tokenizer (SpecTok) *)

RECURSIVE Join(_, _)
Join(fields, d) ==
    IF fields = <<>> THEN <<>>
    ELSE IF Len(fields) = 1 THEN fields[1]
    ELSE fields[1] \o <<d>> \o Join(Tail(fields), d)

Stripped(f, q) == f = <<>> \/ (Head(f) # q /\ f[Len(f)] # q)

\* C2: with no quote character, once next() has returned None the fields
\* yielded, joined with the delimiter, are the line again; the empty line
\* yields no field.
C2_RoundTrip ==
    (tok = "none" /\ ~quote_char.some) =>
        IF line0 = <<>> THEN yielded = <<>>
        ELSE Join(yielded, delimiter) = line0

\* C3: with a quote character Q, every field yielded, the final remainder
\* included, has no Q at its outer boundaries, and the line a,"b,c",d
\* yields exactly a / b,c / d.
C3_FieldsStripped ==
    quote_char.some =>
        /\ \A i \in 1..Len(yielded) : Stripped(yielded[i], quote_char.val)
        /\ (tok = "none" /\ line0 = ExampleLine /\ delimiter = Comma) =>
               yielded = <<<<"a">>, <<"b", Comma, "c">>, <<"d">>>>

\* C8: no call of next() aborts, and every call that yields a field leaves
\* a strictly shorter line.
C8_NeverFails ==
    [][tok = "iter" =>
          /\ tok' # "panic"
          /\ (tok' = "iter" => ByteLen(line') < ByteLen(line))]_vars

----------------------------------------------------------------------------
(* Claims about DataColumn (SpecCol) *)

Values(d) == {d[i] : i \in 1..Len(d)}
FirstIndex(d, v) == CHOOSE i \in 1..Len(d) : d[i] = v /\ \A j \in 1..(i - 1) : d[j] # v
\* The number of distinct values met before the first occurrence of v.
FirstSeenCode(d, v) == Cardinality({d[j] : j \in 1..(FirstIndex(d, v) - 1)})
FirstSeenMap(d) == [v \in Values(d) |-> FirstSeenCode(d, v)]

\* C6: cast<T> returns Some(v) iff every element of data parses as T, v then
\* has the column's length and v[i] is the parse of data[i]; otherwise it
\* returns None; and cast changes neither data nor categories.
C6_Cast ==
    [][col_ret'.op = "cast" =>
          LET T == col_ret'.T
              ret == col_ret'.ret
              all == \A i \in 1..Len(data) : FromStr(T, data[i]).ok
          IN  /\ ret.some <=> all
              /\ ret.some =>
                    /\ Len(ret.val) = Len(data)
                    /\ \A i \in 1..Len(data) : ret.val[i] = FromStr(T, data[i]).val
              /\ ~ret.some => ret = None
              /\ data' = data
              /\ categories' = categories]_vars

\* push "1", push "x", cast to i64 has returned None.
C6_Witness ==
    /\ col_ret.op = "cast"
    /\ col_ret.T = "i64"
    /\ data = <<<<"1">>, <<"x">>>>
    /\ col_ret.ret = None

\* C7: numeric_category_data right after update_categories, on n rows with
\* k distinct values, is Ok with k sub-sequences of length n; sub-sequence c
\* holds one at row r iff the value of row r has code c, zero otherwise, the
\* codes being 0..k-1 in first-seen order; so each row holds exactly one one.
C7_OneHot ==
    (col_ret.op = "numeric_category_data" /\ data_at_update = Some(data)) =>
        LET n == Len(data)
            k == Cardinality(Values(data))
            ret == col_ret.ret
        IN  /\ categories = Some(FirstSeenMap(data))
            /\ ret.ok
            /\ Len(ret.val) = k
            /\ \A c \in 1..k :
                  /\ Len(ret.val[c]) = n
                  /\ \A r \in 1..n :
                        ret.val[c][r] =
                            IF FirstSeenCode(data, data[r]) = c - 1 THEN 1 ELSE 0
            /\ \A r \in 1..n : Cardinality({c \in 1..k : ret.val[c][r] = 1}) = 1

\* Three rows with two distinct values, the repeated one first, encoded.
C7_Witness ==
    /\ col_ret.op = "numeric_category_data"
    /\ data_at_update = Some(data)
    /\ Len(data) = 3
    /\ data[1] = data[2]
    /\ data[3] # data[1]
    /\ col_ret.ret.ok

\* C9: the category mapping is None until update_categories is called and
\* from then on the map of the data at the most recent call, whatever is
\* pushed; numeric_category_data is Ok exactly when update_categories has
\* been called and every value now in data was in data at that call, and is
\* Err(InvalidStateError), with no output, otherwise.
C9_Categories ==
    /\ categories = IF data_at_update.some
                    THEN Some(FirstSeenMap(data_at_update.val))
                    ELSE None
    /\ col_ret.op = "numeric_category_data" =>
          /\ col_ret.ret.ok <=>
                /\ data_at_update.some
                /\ Values(data) \subseteq Values(data_at_update.val)
          /\ ~col_ret.ret.ok => col_ret.ret = Err("InvalidStateError")

\* A value pushed after update_categories that the map lacks: Err.
C9_Witness ==
    /\ col_ret.op = "numeric_category_data"
    /\ data_at_update.some
    /\ Len(data_at_update.val) > 0
    /\ ~(Values(data) \subseteq Values(data_at_update.val))
    /\ ~col_ret.ret.ok

----------------------------------------------------------------------------
(* Claims about DataTable (SpecTab) *)

Rectangular(t) == \A i \in 1..Len(t) : Len(t[i].data) = rows(t)
AllParse(t, T) ==
    \A i \in 1..Len(t) : \A r \in 1..Len(t[i].data) : FromStr(T, t[i].data[r]).ok

\* C1: for a table whose columns do not all have the same length, and whose
\* elements all parse as T, into_consistent_data returns
\* Err(InvalidStateError), with row_major true and with row_major false.
C1_RaggedIsError ==
    (/\ tab_ret.op = "into_consistent_data"
     /\ \E i, j \in 1..Len(data_cols) :
           Len(data_cols[i].data) # Len(data_cols[j].data)
     /\ AllParse(data_cols, tab_ret.T)) =>
        tab_ret.ret = Err("InvalidStateError")

----------------------------------------------------------------------------
(* Claims about Loader::load_file (SpecLoad) *)

Tokens(l) == Collect(l, options.quote_marker, options.delimiter)

\* C4: a line after the first whose number of tokens differs from the
\* table's column count makes load_file return the InvalidInput error; it
\* causes no out-of-range access, no underflow and no abort, and is not
\* accepted.
C4_RaggedLineIsError ==
    (/\ nlines >= 2
     /\ ~Tokens(cur_line).panic
     /\ Len(Tokens(cur_line).fields) # cols(table)) =>
        load = "malformed"

\* C10: when load_file returns Ok(table) the table is rectangular; with
\* has_header every column is named after its token of the first line and
\* that line gives no data row; without it the tokens of the first line are
\* row 0.
C10_LoadedRectangular ==
    load = "ok" =>
        /\ Rectangular(table)
        /\ nlines >= 1 =>
              LET fields == Tokens(first_line).fields
              IN  /\ cols(table) = Len(fields)
                  /\ \A i \in 1..cols(table) :
                        IF options.has_header
                        THEN /\ table[i].name = Some(fields[i])
                             /\ Len(table[i].data) <= nlines - 1
                        ELSE table[i].data[1] = fields[i]

\* A header of two names and one data line of two tokens, loaded.
C10_Witness ==
    /\ load = "ok"
    /\ options.has_header
    /\ nlines = 2
    /\ cols(table) = 2
    /\ rows(table) = 1
    /\ Len(table[2].data) = 1

====
